---- MODULE Spec2Model ----
(***************************************************************************)
(* Model of the recipe/pantry/order/email agent: the Task State store      *)
(* (src/memory.py MemoryLayer), the recipe response decoder                *)
(* (src/action.py ActionLayer.get_recipe) and the action dispatcher        *)
(* (src/action.py ActionLayer.execute / execute_action).                   *)
(*                                                                         *)
(* Strings whose characters matter (ingredient names, pantry entries) are  *)
(* sequences of one-character strings; texts that are only stored or shown *)
(* are short tags.                                                         *)
(***************************************************************************)
EXTENDS Integers, Sequences, FiniteSets, TLC

VARIABLES mem, result, calls, step, raw, envelope, iteration, last_kwargs, plans,
          reconciled, pending

vars ==
    <<mem, result, calls, step, raw, envelope, iteration, last_kwargs, plans,
      reconciled, pending>>

(***************************************************************************)
(* Bounds of the model.                                                    *)
(***************************************************************************)
\* deepest nesting of serialized content layers inside a response text
MaxNest == 1
\* longest sequence of pantry lines the user types before 'done'
MaxPantryLines == 1

\* Python None
None == "<None>"

(***************************************************************************)
(* src/models.py                                                           *)
(***************************************************************************)
\* class ActionType(str, Enum): member name |-> value
ActionType ==
    [FETCH_RECIPE |-> "fetch_recipe", GET_PANTRY |-> "get_pantry",
     PLACE_ORDER |-> "place_order", SEND_EMAIL |-> "send_email",
     DISPLAY_RECIPE |-> "display_recipe",
     CHECK_ORDER_STATUS |-> "check_order_status",
     INVALID_INPUT |-> "invalid_input"]

\* ActionType.<name> resolves (otherwise the attribute access raises
\* AttributeError)
HasMember(name) == name \in DOMAIN ActionType

\* ActionType(value) resolves (otherwise it raises ValueError)
IsActionValue(v) == \E n \in DOMAIN ActionType : ActionType[n] = v

\* SendEmailInput declared with the keyword names the dispatcher passes
SendEmailInputFieldsAsCalled == {"to_email", "subject", "body"}

\* required fields of class SendEmailInput
SendEmailInputFields == {"to", "subject", "message"}

(***************************************************************************)
(* src/memory.py                                                           *)
(***************************************************************************)
\* order_details = {} (no items, no total)
NoDetails == [set |-> FALSE, items |-> <<>>, total |-> 0]

\* a default state that keeps the id of an earlier order
DefaultMemoryStaleOrderId ==
    [dish_name |-> None, required_ingredients |-> <<>>,
     missing_ingredients |-> <<>>, available_ingredients |-> <<>>,
     recipe_steps |-> <<>>, order_placed |-> FALSE, order_id |-> "ORD-10000",
     order_details |-> NoDetails, email_sent |-> FALSE,
     user_email |-> None, current_state |-> "initial", last_action |-> None,
     last_action_status |-> None, retries |-> 0, last_error |-> None]

\* a default state that keeps the notification flag of an earlier task
DefaultMemoryStaleEmailSent ==
    [dish_name |-> None, required_ingredients |-> <<>>,
     missing_ingredients |-> <<>>, available_ingredients |-> <<>>,
     recipe_steps |-> <<>>, order_placed |-> FALSE, order_id |-> None,
     order_details |-> NoDetails, email_sent |-> TRUE,
     user_email |-> None, current_state |-> "initial", last_action |-> None,
     last_action_status |-> None, retries |-> 0, last_error |-> None]

\* MemoryLayer.__init__ / clear_memory: the default Task State
DefaultMemory ==
    [dish_name |-> None, required_ingredients |-> <<>>,
     missing_ingredients |-> <<>>, available_ingredients |-> <<>>,
     recipe_steps |-> <<>>, order_placed |-> FALSE, order_id |-> None,
     order_details |-> NoDetails, email_sent |-> FALSE,
     user_email |-> None, current_state |-> "initial", last_action |-> None,
     last_action_status |-> None, retries |-> 0, last_error |-> None]

\* an update that assigns every supplied key, as dict.update would
UpdateMemoryAnyKey(m, kwargs) ==
    [k \in DOMAIN m \cup DOMAIN kwargs |->
        IF k \in DOMAIN kwargs THEN kwargs[k] ELSE m[k]]

\* update_memory: only keys already in _memory are assigned
UpdateMemory(m, kwargs) ==
    [k \in DOMAIN m |-> IF k \in DOMAIN kwargs THEN kwargs[k] ELSE m[k]]

(***************************************************************************)
(* Capability responses (text that may nest serialized content layers)     *)
(***************************************************************************)
\* ingredient names are character sequences; "A" is the upper case of "a"
RecipeBook ==
    [R1 |-> [req |-> << <<"A", "b">>, <<"b">> >>, steps |-> << "step1" >>],
     R2 |-> [req |-> << <<"a">> >>, steps |-> << >>]]

Payloads == {"none"} \cup DOMAIN RecipeBook

\* texts that are not JSON objects: '', non-JSON text, a JSON non-object
EmptyText == [k |-> "empty"]
Garbage == [k |-> "garbage"]
Scalar == [k |-> "scalar"]
PlainTexts == {EmptyText, Garbage, Scalar}

\* the 'content' field of a JSON object
ContentAbsent == [k |-> "absent"]
ContentNotList == [k |-> "notlist"]
ContentEmptyList == [k |-> "emptylist"]
ContentNonDictItem == [k |-> "nondict"]
ContentText(t) == [k |-> "text", text |-> t]

JsonDict(et, er, p, c) ==
    [k |-> "dict", error_type |-> et, error |-> er, payload |-> p,
     content |-> c]

RECURSIVE Texts(_)
\* every response text with at most n nested serialized content layers
Texts(n) ==
    LET inner == IF n = 0 THEN PlainTexts ELSE Texts(n - 1)
        contents == {ContentAbsent, ContentNotList, ContentEmptyList,
                     ContentNonDictItem} \cup {ContentText(t) : t \in inner}
    IN  PlainTexts \cup
        {JsonDict(et, er, p, c) : et \in BOOLEAN, er \in BOOLEAN,
                                   p \in Payloads, c \in contents}

\* a CallToolResult: no content list, an empty one, a first item without
\* text, or a first item carrying a text
NoContentAttr == [shape |-> "nocontent"]
EmptyContent == [shape |-> "emptylist"]
NoTextAttr == [shape |-> "notext"]
WithText(t) == [shape |-> "text", text |-> t]

RawResults(n) ==
    {NoContentAttr, EmptyContent, NoTextAttr} \cup {WithText(t) : t \in Texts(n)}

(***************************************************************************)
(* src/action.py  ActionLayer.get_recipe                                   *)
(***************************************************************************)
Success(p) ==
    [ok |-> TRUE, exc |-> "none", why |-> "none",
     req |-> RecipeBook[p].req, steps |-> RecipeBook[p].steps]

Raise(exc, why) ==
    [ok |-> FALSE, exc |-> exc, why |-> why, req |-> <<>>, steps |-> <<>>]

\* GetRecipeOutput.model_validate(parsed_content) and the handling of its
\* ValidationError (lines 92-105)
ValidateRecipe(pc) ==
    IF pc.k = "dict" /\ pc.payload # "none"
    THEN Success(pc.payload)
    ELSE IF pc.k = "dict" /\ (pc.error_type \/ pc.error)
         THEN Raise("RecipeServiceError", "service_error")
         ELSE Raise("ValueError", "invalid_format")

\* the nested-content unwrap that skips the inner error_type check
UnwrapNoInnerCheck(pc) ==
    IF pc.content.k = "emptylist" \/ pc.content.k = "nondict"
    THEN Raise("RecipeServiceError", "unexpected")
    ELSE IF pc.content.k = "text" /\ pc.content.text.k # "empty"
         THEN ValidateRecipe(pc.content.text)
         ELSE ValidateRecipe(pc)

\* the nested-content handling that validates the outer dict as it is
UnwrapKeepsOuter(pc) ==
    IF pc.content.k = "emptylist" \/ pc.content.k = "nondict"
    THEN Raise("RecipeServiceError", "unexpected")
    ELSE ValidateRecipe(pc)

\* lines 75-90: a dict with a 'content' list is unwrapped one layer
Unwrap(pc) ==
    IF pc.content.k = "emptylist" \/ pc.content.k = "nondict"
    THEN Raise("RecipeServiceError", "unexpected")
    ELSE IF pc.content.k = "text" /\ pc.content.text.k # "empty"
         THEN LET inner == pc.content.text
              IN  IF inner.k = "dict" /\ inner.error_type
                  THEN Raise("RecipeServiceError", "service_error")
                  ELSE ValidateRecipe(inner)
         ELSE ValidateRecipe(pc)

\* get_recipe as a function of the CallToolResult the recipe session returns
GetRecipe(res) ==
    IF res.shape = "nocontent"
    THEN Raise("ValueError", "invalid_structure")
    ELSE IF res.shape = "emptylist"
    THEN Raise("ValueError", "empty_content")
    ELSE IF res.shape = "notext" \/ res.text.k = "empty"
    THEN Raise("ValueError", "empty_text")
    ELSE IF res.text.k = "garbage"
    THEN Raise("ValueError", "invalid_json")
    ELSE IF res.text.k = "scalar"
    THEN ValidateRecipe(res.text)
    ELSE IF res.text.error_type
    THEN Raise("RecipeServiceError", "service_error")
    ELSE Unwrap(res.text)

\* the session call itself fails with an exception that is no ValueError
\* (connection lost, timeout, tool error)
SessionRaises == [shape |-> "raises"]

\* the session call itself fails with a ValueError or one of its subclasses
\* (json.JSONDecodeError, UnicodeDecodeError, pydantic.ValidationError)
SessionRaisesValueError == [shape |-> "raises_value_error"]

\* get_recipe including a failing call_tool: a ValueError passes through
\* unchanged (lines 116-117), any other exception is wrapped as a
\* RecipeServiceError (lines 118-120); the ValueError keeps the message the
\* session gave it, which is none of get_recipe's own
CallGetRecipe(res) ==
    IF res.shape = "raises_value_error"
    THEN Raise("ValueError", "other")
    ELSE IF res.shape = "raises"
    THEN Raise("RecipeServiceError", "unexpected")
    ELSE GetRecipe(res)

(***************************************************************************)
(* Character-sequence strings: the str methods the dispatcher uses         *)
(***************************************************************************)
UpperToLower ==
    [A |-> "a", B |-> "b", C |-> "c", D |-> "d", E |-> "e", F |-> "f",
     G |-> "g", H |-> "h", I |-> "i", J |-> "j", K |-> "k", L |-> "l",
     M |-> "m", N |-> "n", O |-> "o", P |-> "p", Q |-> "q", R |-> "r",
     S |-> "s", T |-> "t", U |-> "u", V |-> "v", W |-> "w", X |-> "x",
     Y |-> "y", Z |-> "z"]

\* str.lower()
Lower(s) ==
    [i \in 1..Len(s) |-> IF s[i] \in DOMAIN UpperToLower
                         THEN UpperToLower[s[i]] ELSE s[i]]

\* x in y (substring test)
IsSubstring(x, y) ==
    \E i \in 0..(Len(y) - Len(x)) : SubSeq(y, i + 1, i + Len(x)) = x

StartsWith(s, x) == Len(x) <= Len(s) /\ SubSeq(s, 1, Len(x)) = x

RECURSIVE LStrip(_, _)
\* str.lstrip(chars)
LStrip(s, chars) ==
    IF s # <<>> /\ Head(s) \in chars THEN LStrip(Tail(s), chars) ELSE s

RECURSIVE RStrip(_, _)
\* str.rstrip(chars)
RStrip(s, chars) ==
    IF s # <<>> /\ s[Len(s)] \in chars
    THEN RStrip(SubSeq(s, 1, Len(s) - 1), chars) ELSE s

\* str.strip(chars); Strip(s, {" "}) is s.strip() on texts whose only
\* whitespace is the blank
Strip(s, chars) == RStrip(LStrip(s, chars), chars)

RECURSIVE Remove(_, _)
\* str.replace(x, ""), x non-empty
Remove(s, x) ==
    IF Len(s) < Len(x) THEN s
    ELSE IF StartsWith(s, x) THEN Remove(SubSeq(s, Len(x) + 1, Len(s)), x)
    ELSE <<Head(s)>> \o Remove(Tail(s), x)

\* str.replace("_", " ")
UnderscoresToSpaces(s) ==
    [i \in 1..Len(s) |-> IF s[i] = "_" THEN " " ELSE s[i]]

RECURSIVE AfterFirst(_, _)
\* s.split(x, 1)[1] for x in s
AfterFirst(s, x) ==
    IF StartsWith(s, x) THEN SubSeq(s, Len(x) + 1, Len(s))
    ELSE AfterFirst(Tail(s), x)

\* action_mapping (lines 267-315) in insertion order; a character
\* sequence stands for the key string
ActionMapping ==
    <<
       [key |-> <<"g", "e", "t", "_", "r", "e", "c", "i", "p", "e">>,
        member |-> "FETCH_RECIPE"],
       [key |-> <<"f", "e", "t", "c", "h", "_", "r", "e", "c", "i", "p", "e">>,
        member |-> "FETCH_RECIPE"],
       [key |-> <<"c", "h", "e", "c", "k", "_", "p", "a", "n", "t", "r", "y">>,
        member |-> "GET_PANTRY"],
       [key |-> <<"w", "a", "i", "t", "_", "f", "o", "r", "_", "r", "e", "c", "i", "p", "e">>,
        member |-> "WAIT_FOR_RECIPE"],
       [key |-> <<"p", "l", "a", "c", "e", "_", "o", "r", "d", "e", "r">>,
        member |-> "PLACE_ORDER"],
       [key |-> <<"c", "h", "e", "c", "k", "_", "o", "r", "d", "e", "r", "_", "s", "t", "a", "t", "u", "s">>,
        member |-> "CHECK_ORDER_STATUS"],
       [key |-> <<"s", "e", "n", "d", "_", "e", "m", "a", "i", "l">>,
        member |-> "SEND_EMAIL"],
       [key |-> <<"g", "e", "t", " ", "r", "e", "c", "i", "p", "e">>,
        member |-> "FETCH_RECIPE"],
       [key |-> <<"f", "e", "t", "c", "h", " ", "r", "e", "c", "i", "p", "e">>,
        member |-> "FETCH_RECIPE"],
       [key |-> <<"c", "h", "e", "c", "k", " ", "p", "a", "n", "t", "r", "y">>,
        member |-> "GET_PANTRY"],
       [key |-> <<"w", "a", "i", "t", " ", "f", "o", "r", " ", "r", "e", "c", "i", "p", "e">>,
        member |-> "WAIT_FOR_RECIPE"],
       [key |-> <<"p", "l", "a", "c", "e", " ", "o", "r", "d", "e", "r">>,
        member |-> "PLACE_ORDER"],
       [key |-> <<"c", "h", "e", "c", "k", " ", "o", "r", "d", "e", "r", " ", "s", "t", "a", "t", "u", "s">>,
        member |-> "CHECK_ORDER_STATUS"],
       [key |-> <<"s", "e", "n", "d", " ", "e", "m", "a", "i", "l">>,
        member |-> "SEND_EMAIL"],
       [key |-> <<"g", "e", "t", " ", "t", "h", "e", " ", "r", "e", "c", "i", "p", "e">>,
        member |-> "FETCH_RECIPE"],
       [key |-> <<"g", "e", "t", " ", "r", "e", "c", "i", "p", "e", " ", "f", "o", "r">>,
        member |-> "FETCH_RECIPE"],
       [key |-> <<"c", "h", "e", "c", "k", " ", "t", "h", "e", " ", "p", "a", "n", "t", "r", "y">>,
        member |-> "GET_PANTRY"],
       [key |-> <<"c", "h", "e", "c", "k", " ", "m", "y", " ", "p", "a", "n", "t", "r", "y">>,
        member |-> "GET_PANTRY"],
       [key |-> <<"w", "h", "a", "t", " ", "i", "n", "g", "r", "e", "d", "i", "e", "n", "t", "s", " ", "d", "o", " ", "i", " ", "h", "a", "v", "e">>,
        member |-> "GET_PANTRY"],
       [key |-> <<"w", "h", "a", "t", "'", "s", " ", "i", "n", " ", "m", "y", " ", "p", "a", "n", "t", "r", "y">>,
        member |-> "GET_PANTRY"],
       [key |-> <<"l", "i", "s", "t", " ", "p", "a", "n", "t", "r", "y">>,
        member |-> "GET_PANTRY"],
       [key |-> <<"s", "h", "o", "w", " ", "p", "a", "n", "t", "r", "y">>,
        member |-> "GET_PANTRY"],
       [key |-> <<"w", "a", "i", "t", " ", "f", "o", "r", " ", "t", "h", "e", " ", "r", "e", "c", "i", "p", "e">>,
        member |-> "WAIT_FOR_RECIPE"],
       [key |-> <<"w", "a", "i", "t", "i", "n", "g", " ", "f", "o", "r", " ", "r", "e", "c", "i", "p", "e">>,
        member |-> "WAIT_FOR_RECIPE"],
       [key |-> <<"o", "r", "d", "e", "r", " ", "i", "n", "g", "r", "e", "d", "i", "e", "n", "t", "s">>,
        member |-> "PLACE_ORDER"],
       [key |-> <<"o", "r", "d", "e", "r", " ", "m", "i", "s", "s", "i", "n", "g", " ", "i", "n", "g", "r", "e", "d", "i", "e", "n", "t", "s">>,
        member |-> "PLACE_ORDER"],
       [key |-> <<"p", "l", "a", "c", "e", " ", "a", "n", " ", "o", "r", "d", "e", "r">>,
        member |-> "PLACE_ORDER"],
       [key |-> <<"c", "h", "e", "c", "k", " ", "t", "h", "e", " ", "o", "r", "d", "e", "r">>,
        member |-> "CHECK_ORDER_STATUS"],
       [key |-> <<"c", "h", "e", "c", "k", " ", "o", "r", "d", "e", "r">>,
        member |-> "CHECK_ORDER_STATUS"],
       [key |-> <<"c", "h", "e", "c", "k", " ", "t", "h", "e", " ", "o", "r", "d", "e", "r", " ", "s", "t", "a", "t", "u", "s">>,
        member |-> "CHECK_ORDER_STATUS"],
       [key |-> <<"t", "r", "a", "c", "k", " ", "o", "r", "d", "e", "r">>,
        member |-> "CHECK_ORDER_STATUS"],
       [key |-> <<"t", "r", "a", "c", "k", " ", "t", "h", "e", " ", "o", "r", "d", "e", "r">>,
        member |-> "CHECK_ORDER_STATUS"],
       [key |-> <<"s", "e", "n", "d", " ", "c", "o", "n", "f", "i", "r", "m", "a", "t", "i", "o", "n", " ", "e", "m", "a", "i", "l">>,
        member |-> "SEND_EMAIL"],
       [key |-> <<"s", "e", "n", "d", " ", "o", "r", "d", "e", "r", " ", "c", "o", "n", "f", "i", "r", "m", "a", "t", "i", "o", "n">>,
        member |-> "SEND_EMAIL"],
       [key |-> <<"s", "e", "n", "d", " ", "a", " ", "c", "o", "n", "f", "i", "r", "m", "a", "t", "i", "o", "n", " ", "e", "m", "a", "i", "l">>,
        member |-> "SEND_EMAIL"],
       [key |-> <<"e", "m", "a", "i", "l", " ", "t", "h", "e", " ", "u", "s", "e", "r">>,
        member |-> "SEND_EMAIL"],
       [key |-> <<"n", "o", "t", "i", "f", "y", " ", "t", "h", "e", " ", "u", "s", "e", "r">>,
        member |-> "SEND_EMAIL"],
       [key |-> <<"c", "h", "e", "c", "k", " ", "p", "a", "n", "t", "r", "y", " ", "i", "n", "g", "r", "e", "d", "i", "e", "n", "t", "s">>,
        member |-> "GET_PANTRY"],
       [key |-> <<"i", "d", "e", "n", "t", "i", "f", "y", " ", "m", "i", "s", "s", "i", "n", "g", " ", "i", "n", "g", "r", "e", "d", "i", "e", "n", "t", "s">>,
        member |-> "GET_PANTRY"],
       [key |-> <<"c", "h", "e", "c", "k", " ", "i", "n", "g", "r", "e", "d", "i", "e", "n", "t", "s", " ", "i", "n", " ", "p", "a", "n", "t", "r", "y">>,
        member |-> "GET_PANTRY"],
       [key |-> <<"c", "h", "e", "c", "k", " ", "a", "v", "a", "i", "l", "a", "b", "l", "e", " ", "i", "n", "g", "r", "e", "d", "i", "e", "n", "t", "s">>,
        member |-> "GET_PANTRY"],
       [key |-> <<"v", "e", "r", "i", "f", "y", " ", "p", "a", "n", "t", "r", "y", " ", "c", "o", "n", "t", "e", "n", "t", "s">>,
        member |-> "GET_PANTRY"],
       [key |-> <<"c", "h", "e", "c", "k", " ", "p", "a", "n", "t", "r", "y", " ", "a", "p", "i">>,
        member |-> "GET_PANTRY"]
    >>

PhraseRetry == <<"R", "e", "t", "r", "y", " ", "l", "a", "s", "t", " ", "a", "c", "t", "i", "o", "n", " ", "w", "i", "t", "h", " ", "m", "o", "d", "i", "f", "i", "e", "d", " ", "p", "a", "r", "a", "m", "e", "t", "e", "r", "s">>
PhraseCallGetRecipe == <<"c", "a", "l", "l", " ", "g", "e", "t", "_", "r", "e", "c", "i", "p", "e">>
PhraseCheckThePantry == <<"C", "h", "e", "c", "k", " ", "t", "h", "e", " ", "p", "a", "n", "t", "r", "y">>
PhrasePlaceOrder == <<"'", "p", "l", "a", "c", "e", "_", "o", "r", "d", "e", "r", "'">>
PhraseSendEmail == <<"s", "e", "n", "d", " ", "e", "m", "a", "i", "l">>
PhraseCheckOrder == <<"t", "r", "a", "c", "k", " ", "o", "r", "d", "e", "r">>
PhraseWait == <<"w", "a", "i", "t", " ", "f", "o", "r", " ", "r", "e", "c", "i", "p", "e">>
PhraseRecipeFor == <<"g", "e", "t", " ", "r", "e", "c", "i", "p", "e", " ", "f", "o", "r", " ", "a", "b">>

\* phrases a reasoning block names as its next action
Phrases ==
    {PhraseRetry, PhraseCallGetRecipe, PhraseCheckThePantry,
     PhrasePlaceOrder, PhraseSendEmail, PhraseCheckOrder, PhraseWait,
     PhraseRecipeFor}

Quotes == {"'", "\""}

\* lines 255-261: lower, strip, drop "call" and "the", drop one leading and
\* one trailing quote
NextAction(next) ==
    LET a == Strip(Remove(Remove(Strip(Lower(next), {" "}),
                   <<"c", "a", "l", "l">>), <<"t", "h", "e">>), {" "})
        b == IF a # <<>> /\ Head(a) \in Quotes THEN Tail(a) ELSE a
    IN  IF b # <<>> /\ b[Len(b)] \in Quotes
        THEN SubSeq(b, 1, Len(b) - 1) ELSE b

\* line 264
NormalizedAction(next) == UnderscoresToSpaces(NextAction(next))

\* lines 317-332: exact match, match of the normalized text, first key that
\* is a substring; the result is a member name, or None
MapKey(next) ==
    LET na == NextAction(next)
        no == NormalizedAction(next)
        exact(t) == {i \in 1..Len(ActionMapping) : ActionMapping[i].key = t}
        sub == {i \in 1..Len(ActionMapping) :
                   \/ IsSubstring(ActionMapping[i].key, na)
                   \/ IsSubstring(ActionMapping[i].key, no)}
        first(S) == CHOOSE i \in S : \A j \in S : i <= j
    IN  IF exact(na) # {} THEN ActionMapping[first(exact(na))].member
        ELSE IF exact(no) # {} THEN ActionMapping[first(exact(no))].member
        ELSE IF sub # {} THEN ActionMapping[first(sub)].member
        ELSE "INVALID_INPUT"

\* lines 344-350: the recipe name taken from the phrase ("" when absent)
RecipeNameFromPhrase(next) ==
    LET no == NormalizedAction(next)
        clean(t) == Strip(Strip(Strip(Strip(t, {" "}), {"'"}), {"\""}), {"."})
        rn == <<"r", "e", "c", "i", "p", "e", " ", "n", "a", "m", "e">>
        rf == <<"r", "e", "c", "i", "p", "e", " ", "f", "o", "r">>
        gr == <<"g", "e", "t", " ", "r", "e", "c", "i", "p", "e">>
    IN  IF IsSubstring(rn, no) THEN clean(AfterFirst(no, rn))
        ELSE IF IsSubstring(rf, no) THEN clean(AfterFirst(no, rf))
        ELSE IF IsSubstring(gr, no) THEN clean(AfterFirst(no, gr))
        ELSE <<>>

(***************************************************************************)
(* src/action.py  check_pantry_items, get_user_email, check_order_status   *)
(***************************************************************************)
\* lines the user can type for the pantry (a blank line is <<>>); none of
\* them holds leading or trailing whitespace, so strip() leaves them alone
PantryLines == {<<>>, <<"a">>, <<"B">>, <<"a", "b">>}

RECURSIVE SeqsUpTo(_, _)
\* the sequences over S of length at most n
SeqsUpTo(S, n) ==
    IF n = 0 THEN {<<>>}
    ELSE LET shorter == SeqsUpTo(S, n - 1)
         IN  shorter \cup {Append(q, x) : q \in shorter, x \in S}

\* what the user types before 'done' or end of input
PantryInputs == SeqsUpTo(PantryLines, MaxPantryLines)

\* lines 991-1000: the non-empty lines, lower-cased
PantryItems(lines) ==
    LET nonblank(l) == l # <<>>
    IN  SelectSeq([i \in 1..Len(lines) |-> Lower(lines[i])], nonblank)

\* line 1013: the required ingredient matches some pantry item
Found(required, pantry) ==
    \E i \in 1..Len(pantry) :
        \/ IsSubstring(Lower(required), pantry[i])
        \/ IsSubstring(pantry[i], Lower(required))

\* a split that compares the required ingredient as written
CheckPantryItemsCaseSensitive(required_ingredients, lines) ==
    LET pantry == PantryItems(lines)
        found(r) == \E i \in 1..Len(pantry) :
                        IsSubstring(r, pantry[i]) \/ IsSubstring(pantry[i], r)
        notfound(r) == ~found(r)
    IN  [available_ingredients |-> SelectSeq(required_ingredients, found),
         missing_ingredients |-> SelectSeq(required_ingredients, notfound)]

\* lines 1004-1041: the split of the required ingredients
CheckPantryItems(required_ingredients, lines) ==
    LET pantry == PantryItems(lines)
        found(r) == Found(r, pantry)
        notfound(r) == ~Found(r, pantry)
    IN  [available_ingredients |-> SelectSeq(required_ingredients, found),
         missing_ingredients |-> SelectSeq(required_ingredients, notfound)]

\* what the user answers to the e-mail prompt: an address, or end of input
EmailInputs == {"typed@mail.io", "EOF"}

\* lines 1043-1062
GetUserEmail(typed) == IF typed = "EOF" THEN "user@example.com" ELSE typed

\* lines 463-490: order_exists; 'if not order_id' (line 471) replaces None
\* and the empty string by the stored id
OrderExists(m, order_id) ==
    LET oid == IF order_id = None \/ order_id = "" THEN m.order_id
               ELSE order_id
    IN  oid # None /\ m.order_id # None /\ oid = m.order_id

\* what a call of check_pantry_items was given and what it returned
Reconciliation(required, lines, out) ==
    [done |-> TRUE, required |-> required, lines |-> lines,
     available_ingredients |-> out.available_ingredients,
     missing_ingredients |-> out.missing_ingredients]

NotReconciled ==
    [done |-> FALSE, required |-> <<>>, lines |-> <<>>,
     available_ingredients |-> <<>>, missing_ingredients |-> <<>>]

(***************************************************************************)
(* src/action.py  ActionLayer.execute_action                               *)
(***************************************************************************)
\* the outcome of a call: the memory it leaves, what the caller receives (a
\* ToolResponse with a text, or an exception), the capabilities invoked
Ret(m, text, c) == [mem |-> m, kind |-> "response", text |-> text, calls |-> c]
Exc(m, exc, c) == [mem |-> m, kind |-> "raised", text |-> exc, calls |-> c]

\* one capability invocation and how it ended
Call(capability, outcome) == [capability |-> capability, outcome |-> outcome]

\* the decision handed to execute_action
Decision(action, dish, steps, order_id, fallback) ==
    [action |-> action, dish |-> dish, steps |-> steps,
     order_id |-> order_id, fallback |-> fallback]

\* an outer except that also forgets the recipient
OuterExceptClearsRecipient(m, c) ==
    Ret(UpdateMemory(m, [current_state |-> "error",
                         last_action_status |-> "failed",
                         last_error |-> "unexpected_error_executing",
                         user_email |-> None]),
        "unexpected_error_executing", c)

\* an outer except that also counts a retry
OuterExceptCountsRetry(m, c) ==
    Ret(UpdateMemory(m, [current_state |-> "error",
                         last_action_status |-> "failed",
                         last_error |-> "unexpected_error_executing",
                         retries |-> m.retries + 1]),
        "unexpected_error_executing", c)

\* lines 880-896: the outer except of execute_action
OuterExcept(m, c) ==
    Ret(UpdateMemory(m, [current_state |-> "error",
                         last_action_status |-> "failed",
                         last_error |-> "unexpected_error_executing"]),
        "unexpected_error_executing", c)

\* lines 505-526
WaitForRecipeBranch(m) ==
    IF m.recipe_steps # <<>>
    THEN Ret(UpdateMemory(m, [last_action_status |-> "completed",
                              current_state |-> "ready"]),
             "recipe_fetched", <<>>)
    ELSE Ret(UpdateMemory(m, [last_action_status |-> "waiting",
                              current_state |-> "waiting_for_recipe"]),
             "still_waiting", <<>>)

\* class GetRecipeOutput (models.py 20-23)
GetRecipeOutputFields == {"required_ingredients", "recipe_steps"}

\* lines 528-592: after a decoded recipe is stored, the display text reads
\* recipe_output.recipe_name (line 550), and the AttributeError of a field
\* GetRecipeOutput does not have is handled by the last except (584-592).
\* A ValueError out of get_recipe, its own or one the session raised, is
\* handled at 575-583.  The branch is entered with the memory line 498 left
\* (action_in_progress, started), and that is the Task State while
\* get_recipe is awaited at line 535
FetchRecipeBranch(m, d, env) ==
    LET r == CallGetRecipe(env.recipe)
        c == << Call("get_recipe", IF r.ok THEN "success" ELSE r.why) >>
        failed(m0, text) ==
            Ret(UpdateMemory(m0, [current_state |-> "error",
                                  last_action_status |-> "failed",
                                  last_error |-> text]), text, c)
        stored == UpdateMemory(m, [required_ingredients |-> r.req,
                                   recipe_steps |-> r.steps,
                                   last_action_status |-> "completed",
                                   current_state |-> "recipe_fetched"])
    IN  IF r.ok
        THEN IF "recipe_name" \in GetRecipeOutputFields
             THEN Ret(stored, "recipe_text", c)
             ELSE failed(stored, "unexpected_error_during_recipe_fetch")
        ELSE IF r.exc = "RecipeServiceError"
        THEN failed(m, "error_fetching_recipe")
        ELSE failed(m, "error_processing_recipe_data")

\* lines 594-639
GetPantryBranch(m, env) ==
    IF m.required_ingredients = <<>>
    THEN Ret(UpdateMemory(m, [last_action_status |-> "failed",
                              last_error |-> "no_recipe_loaded"]),
             "no_recipe_loaded", <<>>)
    ELSE IF env.input_fault
    THEN Ret(UpdateMemory(m, [last_action_status |-> "failed",
                              last_error |-> "error_in_pantry_check"]),
             "error_in_pantry_check", <<>>)
    ELSE LET r == CheckPantryItems(m.required_ingredients, env.pantry)
             m2 == UpdateMemory(m, [available_ingredients |->
                                        r.available_ingredients])
         IN  Ret(UpdateMemory(m2,
                   [pantry_items |-> r.available_ingredients,
                    missing_ingredients |-> r.missing_ingredients,
                    last_action_status |-> "completed",
                    current_state |-> "pantry_checked"]),
                 IF r.missing_ingredients # <<>> THEN "missing_list"
                 ELSE "have_all", <<>>)

\* lines 641-687
CheckOrderStatusBranch(m, d) ==
    Ret(UpdateMemory(m, [last_action_status |-> "completed",
                         current_state |-> "awaiting_email"]),
        IF OrderExists(m, d.order_id) THEN "order_found"
        ELSE "no_matching_order", <<>>)

\* price of one item in cents (item_price = 3.99)
ItemPriceCents == 399

\* order ids random.randint can produce (two of them stand for the range)
OrderIds == {"ORD-10000", "ORD-99999"}

\* lines 689-748
PlaceOrderBranch(m, env) ==
    IF m.missing_ingredients = <<>>
    THEN Ret(m, "no_ingredients_to_order", <<>>)
    ELSE Ret(UpdateMemory(m,
               [order_placed |-> TRUE,
                order_id |-> env.order_id,
                order_details |->
                    [set |-> TRUE, items |-> m.missing_ingredients,
                     total |-> Len(m.missing_ingredients) * ItemPriceCents],
                current_state |-> "order_placed",
                last_action_status |-> "completed"]),
             "order_placed", <<>>)

\* what the gmail session does when called
GmailBehaviours == {"success", "error_payload", "no_content", "raises"}

\* lines 750-863: 'if not user_email' (769) asks for the address when none
\* or an empty one is stored; the request of line 804 cannot be built, which
\* the except of 832 absorbs before call_tool is reached; after email_sent
\* is stored the recipe display calls dish_name.upper() (line 1070), and
\* with dish_name None the except of 856 returns the failure text
SendEmailBranch(m, env) ==
    IF ~m.order_placed
    THEN Ret(m, "no_order_to_send_email_for", <<>>)
    ELSE LET m2 == IF m.user_email = None \/ m.user_email = ""
                   THEN UpdateMemory(m, [user_email |->
                                             GetUserEmail(env.email)])
                   ELSE m
             m3 == IF m.order_details.items = <<>>
                   THEN UpdateMemory(m2, [order_details |->
                          [set |-> TRUE, items |-> m.missing_ingredients,
                           total |-> Len(m.missing_ingredients)
                                       * ItemPriceCents]])
                   ELSE m2
             built == SendEmailInputFields \subseteq SendEmailInputFieldsAsCalled
             c == << Call("send_email",
                          IF built THEN env.gmail ELSE "not_built") >>
         IN  Ret(UpdateMemory(m3, [email_sent |-> TRUE,
                                   current_state |-> "completed",
                                   last_action_status |-> "completed"]),
                 IF m.dish_name = None THEN "failed_to_send_email"
                 ELSE "email_sent", c)

\* lines 865-871
DisplayRecipeBranch(m, d) == Ret(m, "recipe_steps", <<>>)

\* lines 873-878
InvalidBranch(m, d) ==
    Ret(m, IF d.fallback # None /\ d.fallback # "" THEN d.fallback
           ELSE "invalid_action", <<>>)

\* the members the branch tests of execute_action name, in order
MembersBranchedOn ==
    <<"WAIT_FOR_RECIPE", "FETCH_RECIPE", "GET_PANTRY", "CHECK_ORDER_STATUS",
      "PLACE_ORDER", "SEND_EMAIL", "DISPLAY_RECIPE">>

\* lines 498-503: the update that opens execute_action
Started(m, d) ==
    UpdateMemory(m, [last_action |-> d.action,
                     current_state |-> "action_in_progress",
                     last_action_status |-> "started"])

\* lines 528-878: the branches behind the test of line 505, each as it is
\* written (no decision has the value wait_for_recipe)
ExecuteActionBranches(m1, d, env) ==
    IF d.action = ActionType.FETCH_RECIPE
    THEN FetchRecipeBranch(m1, d, env)
    ELSE IF d.action = ActionType.GET_PANTRY
    THEN GetPantryBranch(m1, env)
    ELSE IF d.action = ActionType.CHECK_ORDER_STATUS
    THEN CheckOrderStatusBranch(m1, d)
    ELSE IF d.action = ActionType.PLACE_ORDER
    THEN PlaceOrderBranch(m1, env)
    ELSE IF d.action = ActionType.SEND_EMAIL
    THEN SendEmailBranch(m1, env)
    ELSE IF d.action = ActionType.DISPLAY_RECIPE
    THEN DisplayRecipeBranch(m1, d)
    ELSE InvalidBranch(m1, d)

\* lines 492-896, from entry to return
ExecuteAction(m, d, env) ==
    LET m1 == Started(m, d)
    IN  IF ~HasMember("WAIT_FOR_RECIPE") THEN OuterExcept(m1, <<>>)
        ELSE IF d.action = ActionType.WAIT_FOR_RECIPE
        THEN WaitForRecipeBranch(m1)
        ELSE ExecuteActionBranches(m1, d, env)

(***************************************************************************)
(* src/action.py  ActionLayer.execute                                      *)
(***************************************************************************)
\* what the environment supplies during one dispatch: the recipe session's
\* result, the pantry lines typed (or a failing input()), the order id
\* drawn, the e-mail typed, the gmail session's behaviour
Env(recipe, pantry, input_fault, order_id, email, gmail) ==
    [recipe |-> recipe, pantry |-> pantry, input_fault |-> input_fault,
     order_id |-> order_id, email |-> email, gmail |-> gmail]

DefaultEnv == Env(NoContentAttr, <<>>, FALSE, "ORD-10000", "EOF", "success")

\* the recipe session results the dispatcher is driven with: flat and
\* wrapped success payloads, error payloads at either level, undecodable
\* responses, a call failing with a ValueError and with another exception
RecipeResponses ==
    {WithText(JsonDict(FALSE, FALSE, "R1", ContentAbsent)),
     WithText(JsonDict(FALSE, FALSE, "R2", ContentAbsent)),
     WithText(JsonDict(FALSE, FALSE, "none",
        ContentText(JsonDict(FALSE, FALSE, "R1", ContentAbsent)))),
     WithText(JsonDict(FALSE, FALSE, "none",
        ContentText(JsonDict(FALSE, FALSE, "R2", ContentAbsent)))),
     WithText(JsonDict(TRUE, FALSE, "none", ContentAbsent)),
     WithText(JsonDict(FALSE, FALSE, "none",
        ContentText(JsonDict(TRUE, FALSE, "none", ContentAbsent)))),
     WithText(JsonDict(FALSE, FALSE, "none", ContentEmptyList)),
     WithText(Garbage), EmptyContent, SessionRaises,
     SessionRaisesValueError}

FetchEnvs ==
    {Env(r, <<>>, FALSE, "ORD-10000", "EOF", "success") :
        r \in RecipeResponses}

PantryEnvs ==
    {Env(NoContentAttr, p, f, "ORD-10000", "EOF", "success") :
        p \in PantryInputs, f \in BOOLEAN}

OrderEnvs ==
    {Env(NoContentAttr, <<>>, FALSE, o, "EOF", "success") : o \in OrderIds}

EmailEnvs ==
    {Env(NoContentAttr, <<>>, FALSE, "ORD-10000", e, g) :
        e \in EmailInputs, g \in GmailBehaviours}

\* the inputs an action kind can consume
Envs(action) ==
    IF action = "fetch_recipe" THEN FetchEnvs
    ELSE IF action = "get_pantry" THEN PantryEnvs
    ELSE IF action = "place_order" THEN OrderEnvs
    ELSE IF action = "send_email" THEN EmailEnvs
    ELSE {DefaultEnv}

\* parameters["input"] of a function call: absent, a mapping with dish_name,
\* a mapping with steps, or a value that is not a mapping
InputKinds == {"absent", "dish", "steps", "notmapping"}

FunctionNames ==
    {"fetch_recipe", "get_pantry", "place_order", "send_email",
     "display_recipe", "check_order_status", "invalid_input",
     "wait_for_recipe", "bogus"}

FallbackTexts == {"", "fallback_text"}

Plan(type, function, input, next, fallback) ==
    [type |-> type, function |-> function, input |-> input, next |-> next,
     fallback |-> fallback]

\* lines 235-250: ValueError and pydantic.ValidationError
InvalidActionType(m) == Ret(m, "invalid_action_type", <<>>)

\* lines 145-154, 168-177, 187-196, 209-218 (and 362-371, 382-391, 402-411):
\* the precondition rejects of execute
Reject(m, text) ==
    Ret(UpdateMemory(m, [last_action_status |-> "failed",
                         last_error |-> text]), text, <<>>)

\* what execute does with a plan before execute_action: it returns or raises
\* (out), or it has built the decision d to hand over
Return(out) == [go |-> FALSE, out |-> out, d |-> Decision("", None, <<>>, None, "")]
HandOver(m, d) == [go |-> TRUE, out |-> Ret(m, "", <<>>), d |-> d]

\* lines 126-233: the function_call branch up to the call of execute_action
PrepareFunctionCall(m, plan) ==
    LET f == plan.function
        go(d) == HandOver(m, d)
    IN  IF ~IsActionValue(f) THEN Return(InvalidActionType(m))
        ELSE IF f = ActionType.FETCH_RECIPE
        THEN IF plan.input = "notmapping"
             THEN Return(Exc(m, "TypeError", <<>>))
             ELSE IF plan.input # "dish" THEN Return(InvalidActionType(m))
             ELSE go(Decision(f, "dish_from_plan", <<>>, None, plan.fallback))
        ELSE IF f = ActionType.GET_PANTRY
        THEN IF m.required_ingredients = <<>>
             THEN Return(Reject(m, "no_recipe_loaded"))
             ELSE go(Decision(f, None, <<>>, None, plan.fallback))
        ELSE IF f = ActionType.PLACE_ORDER
        THEN IF m.missing_ingredients = <<>>
             THEN Return(Reject(m, "no_missing_ingredients_to_order"))
             ELSE go(Decision(f, None, <<>>, None, plan.fallback))
        ELSE IF f = ActionType.SEND_EMAIL
        THEN IF ~m.order_placed
             THEN Return(Reject(m, "no_order_to_send_email_for"))
             ELSE go(Decision(f, None, <<>>, None, plan.fallback))
        ELSE IF f = ActionType.DISPLAY_RECIPE
        THEN IF plan.input = "notmapping"
             THEN Return(Exc(m, "TypeError", <<>>))
             ELSE IF plan.input # "steps" THEN Return(InvalidActionType(m))
             ELSE go(Decision(f, None, <<"shown_step">>, None, plan.fallback))
        ELSE IF f = ActionType.CHECK_ORDER_STATUS
        THEN IF m.order_id = None \/ m.order_id = ""
             THEN Return(Reject(m, "no_order_to_check"))
             ELSE go(Decision(f, None, <<>>, m.order_id, plan.fallback))
        ELSE go(Decision(f, None, <<>>, None, plan.fallback))

\* line 234 and line 446: return await self.execute_action(decision)
RunPrepared(m, p, env) == IF p.go THEN ExecuteAction(m, p.d, env) ELSE p.out

\* lines 126-250
ExecuteFunctionCall(m, plan, env) ==
    RunPrepared(m, PrepareFunctionCall(m, plan), env)

\* lines 433-445
ParameterError(m, member) ==
    Ret(UpdateMemory(m, [current_state |-> "error",
                         last_action |-> member,
                         last_action_status |-> "failed",
                         last_error |-> "error_creating_parameters"]),
        "error_preparing_action", <<>>)

\* lines 251-445: the reasoning_block branch up to the call of execute_action
PrepareReasoningBlock(m, plan) ==
    IF ~HasMember("WAIT_FOR_RECIPE")
    THEN Return(Exc(m, "AttributeError", <<>>))
    ELSE LET member == MapKey(plan.next)
             a == ActionType[member]
             go(d) == HandOver(m, d)
         IN  IF member = "FETCH_RECIPE"
             THEN IF RecipeNameFromPhrase(plan.next) = <<>>
                     /\ m.dish_name = None
                  THEN Return(ParameterError(m, member))
                  ELSE go(Decision(a, "dish", <<>>, None, plan.fallback))
             ELSE IF member = "GET_PANTRY"
             THEN IF m.required_ingredients = <<>>
                  THEN Return(Reject(m, "no_recipe_loaded"))
                  ELSE go(Decision(a, None, <<>>, None, plan.fallback))
             ELSE IF member = "CHECK_ORDER_STATUS"
             THEN IF m.order_id = None \/ m.order_id = ""
                  THEN Return(Reject(m, "no_order_to_check"))
                  ELSE go(Decision(a, None, <<>>, m.order_id, plan.fallback))
             ELSE IF member = "SEND_EMAIL"
             THEN IF ~m.order_placed
                  THEN Return(Reject(m, "no_order_to_send_email_for"))
                  ELSE go(Decision(a, None, <<>>, None, plan.fallback))
             ELSE go(Decision(a, None, <<>>, None, plan.fallback))

\* lines 251-446
ExecuteReasoningBlock(m, plan, env) ==
    RunPrepared(m, PrepareReasoningBlock(m, plan), env)

\* lines 122-461 up to the call of execute_action or to the return that
\* comes before it
Prepare(m, plan) ==
    IF plan.type = "function_call" THEN PrepareFunctionCall(m, plan)
    ELSE IF plan.type = "reasoning_block" THEN PrepareReasoningBlock(m, plan)
    ELSE IF plan.type = "final_answer"
    THEN Return(Ret(m, "final_answer_value", <<>>))
    ELSE Return(Ret(m, "invalid_action_plan_type", <<>>))

\* lines 122-461, from entry to return
Execute(m, plan, env) == RunPrepared(m, Prepare(m, plan), env)

\* the prepared call reaches 'await self.get_recipe' (line 535, call_tool at
\* 44) and returns to the event loop there: the decision is handed over,
\* the branch test of line 505 does not fault and the FETCH_RECIPE branch
\* is taken.  No other branch awaits a session: the gmail call of line 812
\* is behind the request that cannot be built
Awaits(p) ==
    /\ p.go
    /\ HasMember("WAIT_FOR_RECIPE")
    /\ p.d.action = ActionType.FETCH_RECIPE

\* the action kind whose inputs a plan can consume
PlanAction(plan) ==
    IF plan.type = "function_call" THEN plan.function
    ELSE IF plan.type = "reasoning_block"
    THEN LET member == MapKey(plan.next)
         IN  IF HasMember(member) THEN ActionType[member] ELSE "none"
    ELSE "none"

(***************************************************************************)
(* The state machine                                                       *)
(***************************************************************************)
NoResult == [kind |-> "none", text |-> "none"]
NoStep == [op |-> "init", plan |-> Plan("none", "none", "absent", <<>>, "")]
Undecoded == Raise("none", "undecoded")

\* the call of execute that is suspended at its await, if any: its plan and
\* the decision execute_action was entered with
NoPending ==
    [active |-> FALSE, plan |-> NoStep.plan,
     d |-> Decision("", None, <<>>, None, "")]
Suspended(plan, d) == [active |-> TRUE, plan |-> plan, d |-> d]

Init ==
    /\ mem = DefaultMemory
    /\ result = NoResult
    /\ calls = <<>>
    /\ step = NoStep
    /\ raw = NoContentAttr
    /\ envelope = Undecoded
    /\ iteration = 0
    /\ last_kwargs = <<>>
    /\ plans = <<>>
    /\ reconciled = NotReconciled
    /\ pending = NoPending

\* the caller of execute sees the memory it left, what it returned or
\* raised, and the capabilities it invoked
Observe(out, plan) ==
    /\ mem' = out.mem
    /\ result' = [kind |-> out.kind, text |-> out.text]
    /\ calls' = out.calls
    /\ step' = [op |-> "execute", plan |-> plan]
    /\ UNCHANGED <<raw, envelope, iteration, last_kwargs, plans, reconciled>>

\* execute_action returns to the event loop at line 535 with the update of
\* line 498 stored; the caller has nothing yet
Suspend(plan, d) ==
    /\ mem' = Started(mem, d)
    /\ step' = [op |-> "suspended", plan |-> plan]
    /\ pending' = Suspended(plan, d)
    /\ UNCHANGED <<result, calls, raw, envelope, iteration, last_kwargs,
                   plans, reconciled>>

\* the recipe session answers and the FETCH_RECIPE branch runs to its
\* return on the Task State as it is by then
Resume ==
    /\ \E env \in FetchEnvs :
          Observe(FetchRecipeBranch(mem, pending.d, env), pending.plan)
    /\ pending' = NoPending

\* the prepared call runs to its await, or to its return; what the
\* environment supplies matters only to a call that is handed over to
\* execute_action
Start(p, plan) ==
    IF Awaits(p)
    THEN Suspend(plan, p.d)
    ELSE /\ \E env \in (IF p.go THEN Envs(PlanAction(plan))
                         ELSE {DefaultEnv}) :
               Observe(RunPrepared(mem, p, env), plan)
         /\ pending' = pending

\* ActionLayer.execute with a plan of the given fields and what the
\* environment supplies while it runs: the call from entry to its return or
\* to its await, or, with this call suspended, from the await to its
\* return.  One call of execute is in flight at a time
Dispatch(type, function, input, next, fallback) ==
    LET plan == Plan(type, function, input, next, fallback)
    IN  IF pending.active
        THEN plan = pending.plan /\ Resume
        ELSE Start(Prepare(mem, plan), plan)

DispatchFunctionCall ==
    \E f \in FunctionNames, i \in InputKinds, fb \in FallbackTexts :
        Dispatch("function_call", f, i, <<>>, fb)

DispatchReasoningBlock ==
    \E n \in Phrases, fb \in FallbackTexts :
        Dispatch("reasoning_block", "none", "absent", n, fb)

DispatchFinalAnswer ==
    Dispatch("final_answer", "none", "absent", <<>>, "")

DispatchUnknownType ==
    Dispatch("unknown", "none", "absent", <<>>, "")

Dishes == {"pasta", "soup"}
Emails == {"given@mail.io"}

\* memory.py lines 184-234: get_context stores what the perceived input
\* names (a dish name, and an e-mail address when given)
GetContext ==
    \E dish \in Dishes, email \in Emails \cup {None} :
        /\ mem' = UpdateMemory(mem,
                    IF email = None THEN [dish_name |-> dish]
                    ELSE [dish_name |-> dish, user_email |-> email])
        /\ step' = [op |-> "get_context", plan |-> NoStep.plan]
        /\ UNCHANGED <<result, calls, raw, envelope, iteration, last_kwargs,
                       plans, reconciled,
                    pending>>

\* memory.py lines 253-274
ClearMemory ==
    /\ mem' = DefaultMemory
    /\ step' = [op |-> "clear_memory", plan |-> NoStep.plan]
    /\ UNCHANGED <<result, calls, raw, envelope, iteration, last_kwargs,
                   plans, reconciled,
                    pending>>

Next ==
    \/ DispatchFunctionCall
    \/ DispatchReasoningBlock
    \/ DispatchFinalAnswer
    \/ DispatchUnknownType
    \/ GetContext
    \/ ClearMemory

Spec == Init /\ [][Next]_vars

(***************************************************************************)
(* The decoder on its own: any response, decoded once                      *)
(***************************************************************************)
InitDecode ==
    /\ mem = DefaultMemory
    /\ result = NoResult
    /\ calls = <<>>
    /\ step = NoStep
    /\ raw \in RawResults(MaxNest)
    /\ envelope = Undecoded
    /\ iteration = 0
    /\ last_kwargs = <<>>
    /\ plans = <<>>
    /\ reconciled = NotReconciled
    /\ pending = NoPending

Decode ==
    /\ envelope = Undecoded
    /\ envelope' = GetRecipe(raw)
    /\ UNCHANGED <<mem, result, calls, step, raw, iteration, last_kwargs,
                   plans, reconciled,
                    pending>>

NextDecode == Decode

SpecDecode == InitDecode /\ [][NextDecode]_vars

(***************************************************************************)
(* src/main.py  process_input and main                                     *)
(***************************************************************************)
\* main.py line 530
MaxIterations == 50

\* what an instance of MemoryLayer offers (memory.py lines 11-275)
MemoryLayerAttributes ==
    {"memory_file", "_memory", "update_memory", "get_memory", "get_context",
     "clear_memory", "_load_memory", "_save_memory"}

\* what an instance of DecisionLayer offers (decision.py lines 15-222)
DecisionLayerAttributes ==
    {"llm_client", "decide", "_create_decision_prompt", "_parse_llm_response",
     "_generate_with_timeout"}

\* the required parameters of PerceptionLayer.__init__ and
\* DecisionLayer.__init__ besides self
PerceptionLayerParams == {"llm_client"}
DecisionLayerParams == {"llm_client"}

\* main.py lines 525-526: PerceptionLayer() and DecisionLayer()
ConstructorArgsInMain == {}

\* a dish name is falsy when it is None or ''
Falsy(x) == x = None \/ x = ""

\* what the user types for the dish name, stripped and lower-cased
DishInputs == {"", "pasta"}

\* main.py lines 421-493.  Line 425 reads memory.memory; with it readable,
\* lines 425-429 take the dish name, line 433 calls decide_next_action,
\* which no DecisionLayer offers, and lines 447 and 454 read pantry_items,
\* which no memory holds
ProcessInput(m, typed) ==
    IF "memory" \notin MemoryLayerAttributes
    THEN Exc(m, "AttributeError", <<>>)
    ELSE LET m1 == IF Falsy(m.dish_name) /\ ~Falsy(typed)
                   THEN UpdateMemory(m, [dish_name |-> typed])
                   ELSE m
         IN  IF ~Falsy(m1.dish_name) /\ m1.required_ingredients = <<>>
                /\ "decide_next_action" \notin DecisionLayerAttributes
             THEN Exc(m1, "AttributeError", <<>>)
             ELSE IF "pantry_items" \notin DOMAIN m1
             THEN Exc(m1, "AttributeError", <<>>)
             ELSE Ret(m1, "none", <<>>)

\* how main ends: the memory left, what it returned or raised, the value of
\* iteration
Ended(out, i) ==
    [mem |-> out.mem, kind |-> out.kind, text |-> out.text, iteration |-> i]

\* main.py lines 542-559: the completion check
Done(m) == ~Falsy(m.user_email) /\ m.order_placed /\ m.email_sent

RECURSIVE MainLoopRaisesAtCap(_, _, _)
\* a loop that raises when the cap is reached
MainLoopRaisesAtCap(m, i, typed) ==
    IF i >= MaxIterations
    THEN Ended(Exc(m, "RuntimeError", <<>>), i)
    ELSE LET out == ProcessInput(m, typed)
         IN  IF out.kind = "raised" THEN Ended(out, i)
             ELSE IF Done(out.mem)
             THEN Ended(Ret(out.mem, "happy_cooking", <<>>), i)
             ELSE MainLoopRaisesAtCap(out.mem, i + 1, typed)

RECURSIVE MainLoop(_, _, _)
\* main.py lines 532-565: the while loop; typed is what the user answers
\* when asked for the dish
MainLoop(m, i, typed) ==
    IF i >= MaxIterations
    THEN Ended(Ret(m, "reached_maximum_iterations", <<>>), i)
    ELSE LET out == ProcessInput(m, typed)
         IN  IF out.kind = "raised" THEN Ended(out, i)
             ELSE IF Done(out.mem)
             THEN Ended(Ret(out.mem, "happy_cooking", <<>>), i)
             ELSE MainLoop(out.mem, i + 1, typed)

\* main.py lines 495-565; saved is what MemoryLayer() loads from memory.json
Main(saved, typed) ==
    IF ~(PerceptionLayerParams \subseteq ConstructorArgsInMain)
    THEN Ended(Exc(saved, "TypeError", <<>>), 0)
    ELSE IF ~(DecisionLayerParams \subseteq ConstructorArgsInMain)
    THEN Ended(Exc(saved, "TypeError", <<>>), 0)
    ELSE MainLoop(saved, 0, typed)

(***************************************************************************)
(* The orchestration entry points, from any saved Task State               *)
(***************************************************************************)
\* the recipe part of a Task State: nothing fetched, ingredients without
\* steps, ingredients and steps
RecipeParts ==
    {[req |-> <<>>, steps |-> <<>>],
     [req |-> RecipeBook.R1.req, steps |-> <<>>],
     [req |-> RecipeBook.R1.req, steps |-> RecipeBook.R1.steps]}

\* the reconciliation part of a Task State: not reconciled, reconciled with
\* nothing missing, reconciled with the first item missing and then not
\* ordered, ordered, ordered and notified
OrderParts(req) ==
    {[missing |-> <<>>, available |-> <<>>, order_id |-> None,
      email_sent |-> FALSE]}
    \cup IF req = <<>> THEN {}
         ELSE {[missing |-> <<>>, available |-> req,
                order_id |-> None, email_sent |-> FALSE]}
              \cup {[missing |-> << Head(req) >>,
                     available |-> Tail(req),
                     order_id |-> o.id, email_sent |-> o.sent] :
                        o \in {[id |-> None, sent |-> FALSE],
                               [id |-> "ORD-10000", sent |-> FALSE],
                               [id |-> "ORD-10000", sent |-> TRUE]}}

\* Task States memory.json can hold: written by update_memory, with order_id
\* set exactly when order_placed, email_sent only with order_placed, and
\* missing_ingredients within required_ingredients
TaskStates ==
    UNION {{[DefaultMemory EXCEPT
               !.dish_name = d, !.required_ingredients = r.req,
               !.recipe_steps = r.steps,
               !.missing_ingredients = o.missing,
               !.available_ingredients = o.available,
               !.order_placed = (o.order_id # None),
               !.order_id = o.order_id, !.email_sent = o.email_sent,
               !.user_email = e, !.current_state = c] :
               d \in {None, "pasta"}, o \in OrderParts(r.req),
               e \in {None, "given@mail.io"}, c \in {"initial", "error"}} :
           r \in RecipeParts}

InitLoop ==
    /\ mem \in TaskStates
    /\ result = NoResult
    /\ calls = <<>>
    /\ step = NoStep
    /\ raw = NoContentAttr
    /\ envelope = Undecoded
    /\ iteration = 0
    /\ last_kwargs = <<>>
    /\ plans = <<>>
    /\ reconciled = NotReconciled
    /\ pending = NoPending

\* one call of process_input on the Task State at hand
CallProcessInput ==
    /\ step.op = "init"
    /\ \E typed \in DishInputs :
          LET out == ProcessInput(mem, typed)
          IN  /\ mem' = out.mem
              /\ result' = [kind |-> out.kind, text |-> out.text]
              /\ calls' = out.calls
              /\ step' = [op |-> "process_input", plan |-> NoStep.plan]
              /\ UNCHANGED <<raw, envelope, iteration, last_kwargs, plans,
                             reconciled,
                    pending>>

\* one run of main with memory.json holding the Task State at hand
RunMain ==
    /\ step.op = "init"
    /\ \E typed \in DishInputs :
          LET out == Main(mem, typed)
          IN  /\ mem' = out.mem
              /\ result' = [kind |-> out.kind, text |-> out.text]
              /\ iteration' = out.iteration
              /\ step' = [op |-> "main", plan |-> NoStep.plan]
              /\ UNCHANGED <<calls, raw, envelope, last_kwargs, plans,
                             reconciled,
                    pending>>

(***************************************************************************)
(* src/decision.py  DecisionLayer.decide                                   *)
(***************************************************************************)
MaxDecides == 2

\* what the LLM call of decide produces: it raises (timeout, API error), or
\* returns a text that is not a JSON object, or a JSON object of some type
\* with or without the fields its model requires; params_ok says whether
\* the parameter model of the function accepts parameters['params']
LlmResponse(k, type, complete, function, params_ok, input, next) ==
    [k |-> k, type |-> type, complete |-> complete, function |-> function,
     params_ok |-> params_ok, input |-> input, next |-> next,
     on_fail |-> "fallback_text"]

DecideFunctions ==
    {"fetch_recipe", "check_order_status", "wait_for_recipe", "bogus"}

LlmResponses ==
    {LlmResponse(k, "none", FALSE, "none", FALSE, "absent", <<>>) :
        k \in {"raises", "notjson"}}
    \cup {LlmResponse("json", "reasoning_block", c, "none", FALSE, "absent",
                      n) :
            c \in BOOLEAN, n \in {PhraseCheckThePantry, PhrasePlaceOrder}}
    \cup {LlmResponse("json", "function_call", c, f, ok, i, <<>>) :
            c \in BOOLEAN, f \in DecideFunctions, ok \in BOOLEAN,
            i \in {"absent", "dish"}}
    \cup {LlmResponse("json", t, c, "none", FALSE, "absent", <<>>) :
            t \in {"final_answer", "unknown"}, c \in BOOLEAN}

\* lines 50-58: the reasoning block decide returns on any exception
RetryBlock ==
    Plan("reasoning_block", "none", "absent", PhraseRetry,
         "Reset to last known good state")

\* lines 150-173: the functions whose parameters['params'] is handed to a
\* parameter model, which raises when it does not accept them (a missing
\* required field, a value of the wrong type, a value that is no mapping);
\* the else branch builds InvalidInputParams from the function name alone
ParamsValidated ==
    {ActionType.FETCH_RECIPE, ActionType.GET_PANTRY, ActionType.PLACE_ORDER,
     ActionType.SEND_EMAIL, ActionType.CHECK_ORDER_STATUS,
     ActionType.DISPLAY_RECIPE}

\* what _parse_llm_response ends with: a plan returned or an exception
Parsed(plan) == [raised |-> FALSE, plan |-> plan]
ParseRaises == [raised |-> TRUE, plan |-> NoStep.plan]

\* _parse_llm_response (lines 97-196)
ParseLlmResponse(resp) ==
    IF resp.k # "json" THEN ParseRaises
    ELSE IF resp.type = "reasoning_block"
    THEN IF resp.complete
         THEN Parsed(Plan("reasoning_block", "none", "absent", resp.next,
                          resp.on_fail))
         ELSE ParseRaises
    ELSE IF resp.type = "function_call"
    THEN IF ~IsActionValue(resp.function) THEN ParseRaises
         ELSE IF resp.function \in ParamsValidated /\ ~resp.params_ok
         THEN ParseRaises
         ELSE IF ~resp.complete THEN ParseRaises
         ELSE Parsed(Plan("function_call", resp.function, resp.input, <<>>,
                          resp.on_fail))
    ELSE IF resp.type = "final_answer"
    THEN IF resp.complete
         THEN Parsed(Plan("final_answer", "none", "absent", <<>>, ""))
         ELSE ParseRaises
    ELSE ParseRaises

\* a decide that hands on whatever the parser ended with
DecideUnguarded(context, resp) == ParseLlmResponse(resp).plan

\* decide (lines 20-58) as a function of what the LLM call produced; the
\* context built from the Task State reaches the LLM only as prompt text
Decide(context, resp) ==
    LET parsed == ParseLlmResponse(resp)
    IN  IF parsed.raised THEN RetryBlock ELSE parsed.plan

\* one call of decide on the Task State at hand
CallDecide ==
    /\ step.op \in {"init", "decide"}
    /\ Len(plans) < MaxDecides
    /\ \E resp \in LlmResponses :
          /\ plans' = Append(plans, Decide(mem, resp))
          /\ step' = [op |-> "decide", plan |-> NoStep.plan]
    /\ UNCHANGED <<mem, result, calls, raw, envelope, iteration, last_kwargs,
                   reconciled,
                    pending>>

NextLoop ==
    \/ CallProcessInput
    \/ RunMain
    \/ CallDecide

SpecLoop == InitLoop /\ [][NextLoop]_vars

(***************************************************************************)
(* src/memory.py  MemoryLayer as its callers can use it                    *)
(***************************************************************************)
MaxListLen == 3

\* keyword arguments callers pass to update_memory: progress fields one at a
\* time or together, and names that are not memory keys (main.py 451,
\* action.py 614-620)
KwargsInputs ==
    {[order_placed |-> TRUE],
     [order_placed |-> TRUE, order_id |-> "ORD-10000"],
     [email_sent |-> TRUE],
     [user_email |-> "given@mail.io"],
     [pantry_items |-> << <<"b">> >>],
     [dish_name |-> "soup", pantry_items |-> << <<"b">> >>]}

\* the keys whose values are list objects (memory.py 14-35)
ListFields ==
    {"required_ingredients", "missing_ingredients", "available_ingredients",
     "recipe_steps"}

\* get_memory (lines 59-61): dict.copy() makes a new dict with the same
\* bindings, so the snapshot's list values are the memory's list objects
GetMemory(m) ==
    [bindings |-> m, aliased |-> {k \in DOMAIN m : k \in ListFields}]

\* snapshot[k].append(item): the Task State after the list object the
\* snapshot holds under k was changed in place
AppendThroughSnapshot(m, snapshot, k, item) ==
    IF k \in snapshot.aliased THEN [m EXCEPT ![k] = Append(@, item)] ELSE m

\* snapshot[k] = value rebinds a key of the copy only
SetItemThroughSnapshot(m, snapshot, k, value) == m

\* _load_memory (lines 99-110): every key of the defaults that the saved
\* file holds takes the saved value; the saved values are JSON-native
\* (null, booleans, numbers, strings, lists, string-keyed dicts) and come
\* back from json.load as they were dumped
LoadMemory(defaults, saved) ==
    [k \in DOMAIN defaults |->
        IF k \in DOMAIN saved THEN saved[k] ELSE defaults[k]]

\* MemoryLayer() (lines 12-36) with memory.json as the last save left it
NewMemory(saved) == LoadMemory(DefaultMemory, saved)

InitMemory == InitLoop

\* one call of update_memory; it ends with _save_memory (line 57)
CallUpdateMemory ==
    \E kw \in KwargsInputs :
        /\ mem' = UpdateMemory(mem, kw)
        /\ last_kwargs' = kw
        /\ step' = [op |-> "update_memory", plan |-> NoStep.plan]
        /\ UNCHANGED <<result, calls, raw, envelope, iteration, plans,
                       reconciled,
                    pending>>

\* a caller takes a snapshot and appends to one of its lists
SnapshotAppend ==
    \E k \in {"required_ingredients", "missing_ingredients"} :
        /\ Len(mem[k]) < MaxListLen
        /\ mem' = AppendThroughSnapshot(mem, GetMemory(mem), k, <<"x">>)
        /\ step' = [op |-> "snapshot_append", plan |-> NoStep.plan]
        /\ UNCHANGED <<result, calls, raw, envelope, iteration, last_kwargs,
                       plans, reconciled,
                    pending>>

\* a caller takes a snapshot and assigns to one of its keys
SnapshotSetItem ==
    \E k \in {"dish_name", "missing_ingredients"} :
        /\ mem' = SetItemThroughSnapshot(mem, GetMemory(mem), k, <<>>)
        /\ step' = [op |-> "snapshot_setitem", plan |-> NoStep.plan]
        /\ UNCHANGED <<result, calls, raw, envelope, iteration, last_kwargs,
                       plans, reconciled,
                    pending>>

\* a new MemoryLayer is constructed for the next task while memory.json is
\* what the last save wrote (the state loaded at start, or the state the
\* last update_memory saved)
NewMemoryLayer ==
    /\ step.op \in {"init", "update_memory"}
    /\ mem' = NewMemory(mem)
    /\ step' = [op |-> "new_memory_layer", plan |-> NoStep.plan]
    /\ UNCHANGED <<result, calls, raw, envelope, iteration, last_kwargs,
                   plans, reconciled,
                    pending>>

NextMemory ==
    \/ CallUpdateMemory
    \/ SnapshotAppend
    \/ SnapshotSetItem
    \/ NewMemoryLayer

SpecMemory == InitMemory /\ [][NextMemory]_vars

(***************************************************************************)
(* src/action.py  check_pantry_items called on its own                     *)
(***************************************************************************)
MaxRequired == 3

\* ingredient names a recipe can require
IngredientNames == {<<"A", "b">>, <<"b">>, <<"c">>}

\* the lists check_pantry_items can be given
RequiredInputs == SeqsUpTo(IngredientNames, MaxRequired)

InitPantry == Init

\* one call of check_pantry_items (lines 975-1041): it reads the pantry
\* lines, splits the required ingredients, stores available_ingredients
\* (line 1031) and returns both lists
CallCheckPantryItems ==
    \E required \in RequiredInputs, lines \in PantryInputs :
        LET out == CheckPantryItems(required, lines)
        IN  /\ step.op = "init"
            /\ mem' = UpdateMemory(mem, [available_ingredients |->
                                            out.available_ingredients])
            /\ reconciled' = Reconciliation(required, lines, out)
            /\ step' = [op |-> "check_pantry_items", plan |-> NoStep.plan]
            /\ UNCHANGED <<result, calls, raw, envelope, iteration,
                           last_kwargs, plans,
                    pending>>

NextPantry == CallCheckPantryItems

SpecPantry == InitPantry /\ [][NextPantry]_vars

(***************************************************************************)
(* Properties                                                              *)
(***************************************************************************)
Range(q) == {q[i] : i \in 1..Len(q)}

\* the last operation was a dispatch through execute
Dispatched == step.op = "execute"

\* the action kind the last dispatch named
DispatchedAction == PlanAction(step.plan)

\* the function calls execute can be handed
FunctionPlans ==
    {Plan("function_call", f, i, <<>>, fb) :
        f \in FunctionNames, i \in InputKinds, fb \in FallbackTexts}

\* execute followed into the branch of execute_action that the decision
\* selects (lines 528-878): what the stage handler does with the Task State.
\* In execute_action as it stands the test of line 505 faults before any
\* branch is entered
BranchOutcome(m, plan, env) ==
    LET p == Prepare(m, plan)
    IN  IF p.go THEN ExecuteActionBranches(Started(m, p.d), p.d, env)
        ELSE p.out

\* P holds between the Task State at hand and the outcome of every stage
\* handler on it, for every function call and all the environment supplies
BranchSteps(P(_, _)) ==
    \A plan \in FunctionPlans : \A env \in Envs(PlanAction(plan)) :
        P(mem, BranchOutcome(mem, plan, env))

\* C1: in every state reachable from the default Task State by dispatches
\* and clear_memory, order_id is set if and only if order_placed is true
C1_OrderIdIffOrderPlaced == (mem.order_id # None) <=> mem.order_placed

\* a place_order dispatch has been handled
C1_Witness ==
    /\ Dispatched
    /\ DispatchedAction = "place_order"
    /\ result.kind = "response"
    /\ ~mem.order_placed /\ mem.order_id = None

\* C2: in every reachable state email_sent implies order_placed
C2_EmailSentImpliesOrderPlaced == mem.email_sent => mem.order_placed

\* a send_email dispatch has been handled while no order was placed
C2_Witness ==
    /\ Dispatched
    /\ DispatchedAction = "send_email"
    /\ result.text = "no_order_to_send_email_for"
    /\ ~mem.email_sent

MissingWithinRequired(m) ==
    Range(m.missing_ingredients) \subseteq Range(m.required_ingredients)

C3_Step(m, out) == MissingWithinRequired(m) => MissingWithinRequired(out.mem)

CompletedOnlyWhenDone(m) ==
    m.current_state = "completed" =>
        /\ m.recipe_steps # <<>>
        /\ \/ m.missing_ingredients = <<>>
           \/ m.order_placed /\ m.email_sent

C4_Step(m, out) == CompletedOnlyWhenDone(m) => CompletedOnlyWhenDone(out.mem)

C5_ExecuteNeverRaises == result.kind # "raised"

\* the texts execute returns for a step that did not succeed
FailureTexts ==
    {"no_recipe_loaded", "no_missing_ingredients_to_order",
     "no_order_to_send_email_for", "no_order_to_check",
     "no_ingredients_to_order", "invalid_action_type",
     "error_preparing_action", "unexpected_error_executing",
     "error_fetching_recipe", "error_processing_recipe_data",
     "unexpected_error_during_recipe_fetch", "error_in_pantry_check",
     "failed_to_send_email"}

\* the last dispatch failed
StepFailed ==
    /\ Dispatched
    /\ result.kind = "raised" \/ result.text \in FailureTexts

\* C6: whenever a dispatched step fails, the resulting state has
\* current_state = error, last_action_status = failed and last_error set
C6_FailureMarksError ==
    StepFailed =>
        /\ mem.current_state = "error"
        /\ mem.last_action_status = "failed"
        /\ mem.last_error # None

\* the response carries error_type at the outer level or in the nested
\* serialized content layer
HasErrorMarker(res) ==
    /\ res.shape = "text"
    /\ res.text.k = "dict"
    /\ \/ res.text.error_type
       \/ /\ res.text.content.k = "text"
          /\ res.text.content.text.k = "dict"
          /\ res.text.content.text.error_type

\* C7: a response with an error marker at the outer level or inside the
\* nested content layer is never decoded as a success payload
C7_ErrorNeverDecodedAsSuccess ==
    (envelope # Undecoded /\ HasErrorMarker(raw)) => ~envelope.ok

\* a nested error marker, next to a well-formed payload, was decoded as a
\* service failure
C7_Witness ==
    /\ envelope # Undecoded
    /\ raw.shape = "text" /\ raw.text.k = "dict" /\ ~raw.text.error_type
    /\ raw.text.content.k = "text"
    /\ raw.text.content.text.k = "dict"
    /\ raw.text.content.text.error_type
    /\ raw.text.content.text.payload # "none"
    /\ envelope.exc = "RecipeServiceError"

\* the notify capability was invoked in the step and returned success
NotifySucceeded(c) ==
    \E i \in 1..Len(c) :
        c[i].capability = "send_email" /\ c[i].outcome = "success"

\* the notify request was attempted in the step and did not succeed
NotifyFailed(c) ==
    \E i \in 1..Len(c) :
        c[i].capability = "send_email" /\ c[i].outcome # "success"

C8_Step(m, out) ==
    /\ (out.mem.email_sent /\ ~m.email_sent) => NotifySucceeded(out.calls)
    /\ (out.mem.current_state = "completed" /\ m.current_state # "completed")
          => NotifySucceeded(out.calls)
    /\ NotifyFailed(out.calls)
          => (out.mem.last_action_status = "failed" /\ ~out.mem.email_sent)

C9_Step(m, out) ==
    /\ out.mem.current_state = "pantry_checked"
          => m.required_ingredients # <<>>
    /\ (out.mem.order_placed /\ ~m.order_placed)
          => m.missing_ingredients # <<>>
    /\ (out.mem.email_sent /\ ~m.email_sent) => m.order_placed
    /\ out.text = "recipe_steps"
          => /\ m.recipe_steps # <<>>
             /\ \/ m.missing_ingredients = <<>>
                \/ m.order_placed /\ m.email_sent

Invoked(c, capability) ==
    \E i \in 1..Len(c) : c[i].capability = capability

C10_Step(m, out) ==
    /\ m.order_placed =>
          /\ out.mem.order_id = m.order_id
          /\ out.mem.order_details.set = m.order_details.set
          /\ out.text # "order_placed"
    /\ m.email_sent => ~Invoked(out.calls, "send_email")
    /\ (m.required_ingredients # <<>> /\ m.recipe_steps # <<>>)
          => ~Invoked(out.calls, "get_recipe")

MainEnded == step.op = "main"

\* process_input has been called once
ProcessInputEnded == step.op = "process_input"

\* the default Task State with a subject
DefaultWithSubject == [DefaultMemory EXCEPT !.dish_name = "pasta"]

\* C11: from the default Task State with a subject, a run of main ends
\* before the iteration cap without raising, with current_state = completed
\* and the order placed and notified
C11_LoopReachesCompleted ==
    [][(step'.op = "main" /\ mem = DefaultWithSubject)
          => /\ result'.kind = "response"
             /\ iteration' < MaxIterations
             /\ mem'.current_state = "completed"
             /\ mem'.order_placed /\ mem'.email_sent]_vars

\* the pantry check has left nothing missing and the steps are known
NothingMissing(m) ==
    /\ ~Falsy(m.dish_name)
    /\ m.required_ingredients # <<>> /\ m.recipe_steps # <<>>
    /\ m.available_ingredients # <<>> /\ m.missing_ingredients = <<>>

\* C12: with nothing missing and the steps known, process_input presents
\* the recipe, and main ends completed before the cap with no order placed
\* and no notification sent
C12_PresentsWhenNothingMissing ==
    [][NothingMissing(mem) =>
          /\ step'.op = "process_input"
                => (result'.kind = "response" /\ result'.text = "recipe_steps")
          /\ step'.op = "main"
                => /\ result'.kind = "response"
                   /\ iteration' < MaxIterations
                   /\ mem'.current_state = "completed"
                   /\ ~mem'.order_placed /\ ~mem'.email_sent]_vars

\* C13: main stops before the iteration cap only with current_state =
\* completed
C13_StopsEarlyOnlyWhenCompleted ==
    (MainEnded /\ iteration < MaxIterations)
        => mem.current_state = "completed"

\* the loop halted at the cap: no exception, no error, the task incomplete
HaltedIncomplete(e) ==
    /\ e.iteration = MaxIterations
    /\ e.kind = "response"
    /\ e.text = "reached_maximum_iterations"

\* C14: main ends after at most MaxIterations cycles, and so does the loop
\* entered on any Task State; a loop that has reached the cap halts with an
\* incomplete outcome that is neither an exception nor an error
C14_LoopTerminatesWithinCap ==
    /\ MainEnded =>
          /\ iteration <= MaxIterations
          /\ iteration >= MaxIterations
                => (result.kind = "response"
                    /\ result.text = "reached_maximum_iterations")
    /\ \A typed \in DishInputs :
          /\ MainLoop(mem, 0, typed).iteration <= MaxIterations
          /\ HaltedIncomplete(MainLoop(mem, MaxIterations, typed))

\* main has run on a Task State that is not completed and has ended
C14_Witness ==
    /\ MainEnded
    /\ iteration <= MaxIterations
    /\ mem.current_state # "completed"
    /\ ~Done(mem)

\* the progress fields of a Task State
ProgressFields(m) ==
    <<m.required_ingredients, m.recipe_steps, m.missing_ingredients,
      m.available_ingredients, m.order_placed, m.order_id, m.order_details,
      m.email_sent, m.user_email>>

\* execute reported the step failed
ReportedFailed(out) ==
    \/ out.kind = "raised"
    \/ out.text \in FailureTexts
    \/ out.mem.last_action_status = "failed"

C15_Step(m, out) ==
    ReportedFailed(out)
        => /\ ProgressFields(out.mem) = ProgressFields(m)
           /\ \A r1 \in LlmResponses, r2 \in LlmResponses :
                 PlanAction(Decide(out.mem, r2)) = PlanAction(Decide(m, r1))

\* C15: a step that is reported failed leaves every progress field as it
\* was, and the decision made after it selects the action kind the decision
\* before it selected
C15_FailedStepKeepsProgress ==
    /\ \A plan \in FunctionPlans : \A env \in Envs(PlanAction(plan)) :
          C15_Step(mem, Execute(mem, plan, env))
    /\ BranchSteps(C15_Step)

\* the last dispatch was a function call naming an action kind, and execute
\* returned
ActionDispatched ==
    /\ Dispatched
    /\ step.plan.type = "function_call"
    /\ IsActionValue(step.plan.function)
    /\ result.kind = "response"

\* C16: when execute returns, last_action is the kind of the action just
\* dispatched, also when the step was rejected on a precondition
C16_LastActionIsDispatchedKind ==
    ActionDispatched => mem.last_action = step.plan.function

\* C17: when execute returns, last_action_status is not started: it is
\* failed with last_error set when the step failed, completed otherwise
C17_OutcomeSettledOnReturn ==
    ActionDispatched =>
        /\ mem.last_action_status # "started"
        /\ IF StepFailed
           THEN mem.last_action_status = "failed" /\ mem.last_error # None
           ELSE mem.last_action_status = "completed"

\* C18: for every Task State process_input settles on one rule: it returns
\* what that rule's action produced and does not fault
C18_ExactlyOneRuleMatches ==
    ProcessInputEnded => result.kind = "response"

\* C19: while the subject is empty process_input answers with the
\* invalid-input text, invokes no capability and changes no progress field
C19_EmptySubjectIsInvalidInput ==
    [][(step'.op = "process_input" /\ Falsy(mem'.dish_name))
          => /\ result'.kind = "response"
             /\ result'.text = "invalid_action"
             /\ calls' = <<>>
             /\ ProgressFields(mem') = ProgressFields(mem)]_vars

\* C20: with a subject, required ingredients and no steps, process_input
\* dispatches fetch_recipe
C20_FetchWhenStepsMissing ==
    [][(/\ step'.op = "process_input"
        /\ ~Falsy(mem.dish_name)
        /\ mem.required_ingredients # <<>>
        /\ mem.recipe_steps = <<>>)
          => /\ result'.kind = "response"
             /\ mem'.last_action = ActionType.FETCH_RECIPE]_vars

\* C21: with a subject, missing items and no order placed, process_input
\* dispatches place_order and the order holds exactly the missing items,
\* whether or not a recipient address is known
C21_OrderWhenMissingItems ==
    [][(/\ step'.op = "process_input"
        /\ ~Falsy(mem.dish_name)
        /\ mem.missing_ingredients # <<>>
        /\ ~mem.order_placed)
          => /\ result'.kind = "response"
             /\ mem'.last_action = ActionType.PLACE_ORDER
             /\ mem'.order_details # NoDetails
             /\ mem'.order_details.items = mem.missing_ingredients]_vars

\* C22: with an order placed, its id recorded and no notification sent,
\* process_input dispatches send_email
C22_NotifyWhenOrderPlaced ==
    [][(/\ step'.op = "process_input"
        /\ mem.order_placed
        /\ mem.order_id # None
        /\ ~mem.email_sent)
          => /\ result'.kind = "response"
             /\ mem'.last_action = ActionType.SEND_EMAIL]_vars

\* C23: the plan decide selects is a function of the Task State (asked again
\* about the same state it selects the plan it selected before), and
\* selecting changes no field of the Task State
C23_DecideIsPureFunctionOfState ==
    [][step'.op = "decide"
          => /\ mem' = mem
             /\ \A i \in DOMAIN plans : plans'[Len(plans')] = plans[i]]_vars

\* the data invariants of a Task State: order_id is recorded exactly when
\* an order is placed, and a notification is sent only for a placed order
WellFormed(m) ==
    /\ m.order_placed <=> m.order_id # None
    /\ m.email_sent => m.order_placed

\* C24: an update whose merged result would break a data invariant fails
\* and applies nothing, so an update of a well-formed Task State leaves it
\* well-formed
C24_UpdateIsAllOrNothing ==
    [][(step'.op = "update_memory" /\ WellFormed(mem))
          => WellFormed(mem')]_vars

\* C25: nothing done through a snapshot returned by get_memory, to its keys
\* or to its list values, changes the Task State
C25_SnapshotIsIndependent ==
    [][step'.op \in {"snapshot_append", "snapshot_setitem"}
          => mem' = mem]_vars

\* C26: a newly constructed Task State has every field at its default,
\* whatever the earlier task reached
C26_NewStateIsDefault ==
    step.op = "new_memory_layer" => mem = DefaultMemory

\* C30: update_memory changes exactly the supplied fields that are memory
\* keys: every other field keeps its value, names that are not memory keys
\* are ignored, and the set of fields stays the same
C30_UpdateChangesOnlyNamedFields ==
    [][step'.op = "update_memory"
          => /\ DOMAIN mem' = DOMAIN mem
             /\ \A k \in DOMAIN mem :
                   mem'[k] = IF k \in DOMAIN last_kwargs'
                             THEN last_kwargs'[k] ELSE mem[k]]_vars

\* an update naming a memory key and an unknown name has been applied to a
\* Task State holding earlier progress
C30_Witness ==
    /\ step.op = "update_memory"
    /\ DOMAIN last_kwargs = {"dish_name", "pantry_items"}
    /\ mem.dish_name = "soup"
    /\ mem.required_ingredients # <<>>
    /\ DOMAIN mem = DOMAIN DefaultMemory

\* a valid success payload with no nested content layer
FlatSuccess(t) ==
    /\ t.k = "dict"
    /\ ~t.error_type
    /\ t.payload # "none"
    /\ t.content.k = "absent"

\* a serialized content layer around a flat success payload
WrappedOnce(t) ==
    /\ t.k = "dict"
    /\ ~t.error_type
    /\ t.content.k = "text"
    /\ FlatSuccess(t.content.text)

\* C27: a flat success payload is decoded without error to its recipe, and
\* the same payload wrapped in one more content layer is decoded to the
\* same result
C27_DecodeIdempotentUnderWrapping ==
    (envelope # Undecoded /\ raw.shape = "text")
        => /\ FlatSuccess(raw.text)
                => envelope = Success(raw.text.payload)
           /\ WrappedOnce(raw.text)
                => /\ envelope = Success(raw.text.content.text.payload)
                   /\ envelope = GetRecipe(WithText(raw.text.content.text))

\* a wrapped flat success payload has been decoded to its recipe
C27_Witness ==
    /\ raw.shape = "text"
    /\ WrappedOnce(raw.text)
    /\ raw.text.payload = "none"
    /\ envelope.ok
    /\ envelope.steps = RecipeBook.R1.steps

\* a JSON object that carries no error marker and no valid recipe
NoMarkerNoRecipe(t) ==
    t.k = "dict" /\ ~t.error_type /\ ~t.error /\ t.payload = "none"

\* responses that unwrap to neither an error payload nor a valid success
\* payload: no or empty content, empty or non-JSON text, a JSON non-object,
\* an object without the recipe fields, a nested envelope whose content
\* list is empty or malformed, or whose text is one of the former
Malformed(res) ==
    \/ res.shape \in {"nocontent", "emptylist", "notext"}
    \/ /\ res.shape = "text"
       /\ \/ res.text.k \in {"empty", "garbage", "scalar"}
          \/ /\ NoMarkerNoRecipe(res.text)
             /\ \/ res.text.content.k \in
                      {"absent", "notlist", "emptylist", "nondict"}
                \/ /\ res.text.content.k = "text"
                   /\ \/ res.text.content.text.k \in
                            {"empty", "garbage", "scalar"}
                      \/ NoMarkerNoRecipe(res.text.content.text)

\* C28: a response that unwraps to neither an error payload nor a valid
\* success payload is reported as a decode failure (ValueError), not as a
\* service failure (RecipeServiceError) and not as success
C28_MalformedIsDecodeFailure ==
    (envelope # Undecoded /\ Malformed(raw))
        => ~envelope.ok /\ envelope.exc = "ValueError"

\* C29: every call of process_input in the loop yields a non-empty status
\* text, also when no guard matches or the step fails
C29_EveryIterationYieldsStatus ==
    ProcessInputEnded
        => /\ result.kind = "response"
           /\ result.text \notin {"none", ""}

\* the order capability was invoked in the step and returned success
OrderSucceeded(c) ==
    \E i \in 1..Len(c) :
        c[i].capability = "place_order" /\ c[i].outcome = "success"

C31_Step(m, out) ==
    /\ (out.mem.order_placed /\ ~m.order_placed)
          => /\ OrderSucceeded(out.calls)
             /\ out.mem.order_id # None
             /\ out.mem.order_details.items = m.missing_ingredients
    /\ (Invoked(out.calls, "place_order") /\ ~OrderSucceeded(out.calls))
          => ~out.mem.order_placed

C32_SingleAttemptNoRetryCount ==
    [][step'.op = "execute"
          => /\ Len(calls') <= 1
             /\ mem'.retries = mem.retries]_vars

\* a fetch_recipe dispatch failed inside execute_action and retries is
\* still at its default
C32_Witness ==
    /\ Dispatched
    /\ DispatchedAction = "fetch_recipe"
    /\ step.plan.type = "function_call"
    /\ mem.last_action_status = "failed"
    /\ result.text = "unexpected_error_executing"
    /\ Len(calls) <= 1
    /\ mem.retries = 0

\* the fetch_recipe function call that names a dish
FetchPlan == Plan("function_call", ActionType.FETCH_RECIPE, "dish", <<>>, "")

\* C33: dispatched in any reachable state, a fetch_recipe whose response
\* decodes to a valid recipe stores exactly the payload's ingredients and
\* steps, ends with last_action_status = completed and current_state =
\* recipe_fetched, and leaves the other progress fields as they were
C33_FetchSuccessStoresRecipe ==
    \A env \in FetchEnvs :
        LET r == CallGetRecipe(env.recipe)
            out == Execute(mem, FetchPlan, env)
        IN  r.ok =>
              /\ out.kind = "response"
              /\ out.mem.required_ingredients = r.req
              /\ out.mem.recipe_steps = r.steps
              /\ out.mem.last_action_status = "completed"
              /\ out.mem.current_state = "recipe_fetched"
              /\ \A k \in {"missing_ingredients", "available_ingredients",
                           "order_placed", "order_id", "order_details",
                           "email_sent", "user_email"} :
                    out.mem[k] = mem[k]

\* the plan names no recognised action: a function that is not an action
\* kind or is invalid_input, or a phrase that maps to no action kind
NamesNoAction(plan) ==
    \/ /\ plan.type = "function_call"
       /\ \/ ~IsActionValue(plan.function)
          \/ plan.function = ActionType.INVALID_INPUT
    \/ /\ plan.type = "reasoning_block"
       /\ MapKey(plan.next) = "INVALID_INPUT"

\* C34: dispatching a plan that names no recognised action invokes no
\* capability, changes no progress field, and returns the plan's fallback
\* text, or a generic invalid-action text when it has none
C34_UnrecognisedIsInvalidInput ==
    [][(step'.op = "execute" /\ NamesNoAction(step'.plan))
          => /\ calls' = <<>>
             /\ ProgressFields(mem') = ProgressFields(mem)
             /\ result'.kind = "response"
             /\ IF step'.plan.fallback # ""
                THEN result'.text = step'.plan.fallback
                ELSE result'.text \in {"invalid_action",
                                       "invalid_action_type"}]_vars

\* some entered pantry line, lower-cased, contains the lower-cased required
\* item or is contained in it
MatchesPantry(item, lines) ==
    \E i \in 1..Len(lines) :
        /\ lines[i] # <<>>
        /\ \/ IsSubstring(Lower(item), Lower(lines[i]))
           \/ IsSubstring(Lower(lines[i]), Lower(item))

\* the items of q at the positions in S, in their order
RECURSIVE AtPositions(_, _, _)
AtPositions(q, S, i) ==
    IF i > Len(q) THEN <<>>
    ELSE (IF i \in S THEN << q[i] >> ELSE <<>>) \o AtPositions(q, S, i + 1)

\* C35: after a pantry reconciliation the available and the missing items
\* partition the required items: every position of the required list is in
\* exactly one of the two lists, each list keeps the original order, and
\* an item is available exactly when some entered pantry item matches it
C35_ReconciliationPartitions ==
    reconciled.done =>
        LET req == reconciled.required
            matched == {i \in 1..Len(req) :
                           MatchesPantry(req[i], reconciled.lines)}
        IN  /\ reconciled.available_ingredients
                  = AtPositions(req, matched, 1)
            /\ reconciled.missing_ingredients
                  = AtPositions(req, (1..Len(req)) \ matched, 1)
            /\ mem.available_ingredients
                  = reconciled.available_ingredients

\* a reconciliation split a list with a repeated item in two non-empty
\* parts, the item written in upper case being matched
C35_Witness ==
    /\ reconciled.done
    /\ reconciled.required = << <<"c">>, <<"A", "b">>, <<"c">> >>
    /\ reconciled.available_ingredients = << <<"A", "b">> >>
    /\ reconciled.missing_ingredients = << <<"c">>, <<"c">> >>

\* C36: in every state a step leads to, email_sent implies that user_email
\* is set, and a dispatched step keeps a recipient that is already stored
C36_NotifiedImpliesRecipient ==
    [][/\ mem'.email_sent => ~Falsy(mem'.user_email)
       /\ (step'.op = "execute" /\ ~Falsy(mem.user_email))
             => mem'.user_email = mem.user_email]_vars

\* a send_email dispatch was handled with a recipient stored before it:
\* the recipient is kept and no notification is recorded
C36_Witness ==
    /\ Dispatched
    /\ DispatchedAction = "send_email"
    /\ mem.last_error = "no_order_to_send_email_for"
    /\ mem.user_email = "given@mail.io"
    /\ ~mem.email_sent

\* the plan that asks for the status of the order
CheckOrderStatusPlan ==
    Plan("function_call", ActionType.CHECK_ORDER_STATUS, "absent", <<>>,
         "fallback_text")

\* C37: on every Task State the layer can be loaded with, execute of a
\* check_order_status call reports the order as found exactly when the
\* Task State holds an order_id; with none stored the step is rejected as
\* failed; in every case order_placed, order_id, order_details and
\* email_sent stay as they were and current_state does not become completed
C37_CheckOrderStatusFrame ==
    LET out == Execute(mem, CheckOrderStatusPlan, DefaultEnv)
    IN  /\ (out.text = "order_found") <=> ~Falsy(mem.order_id)
        /\ Falsy(mem.order_id)
              => /\ out.text = "no_order_to_check"
                 /\ out.mem.last_action_status = "failed"
        /\ out.mem.order_placed = mem.order_placed
        /\ out.mem.order_id = mem.order_id
        /\ out.mem.order_details = mem.order_details
        /\ out.mem.email_sent = mem.email_sent
        /\ out.mem.current_state # "completed"

\* the plans decide returns
WellFormedPlan(plan) ==
    \/ plan.type = "reasoning_block" /\ plan.next # <<>>
    \/ plan.type = "function_call" /\ IsActionValue(plan.function)
    \/ plan.type = "final_answer"

\* C38: decide always returns a plan (when the LLM call or the parsing of
\* its reply fails, the error-handling reasoning block), and execute of that
\* block on the Task State decide was called on changes no progress field
C38_DecideAlwaysReturnsPlan ==
    [][step'.op = "decide"
          => /\ WellFormedPlan(plans'[Len(plans')])
             /\ plans'[Len(plans')] = RetryBlock
                   => \A env \in Envs(PlanAction(RetryBlock)) :
                         ProgressFields(Execute(mem', RetryBlock, env).mem)
                            = ProgressFields(mem')]_vars

\* decide returned the error-handling block on a Task State that holds an
\* order and a recipe
C38_Witness ==
    /\ step.op = "decide"
    /\ plans # <<>>
    /\ plans[Len(plans)] = RetryBlock
    /\ mem.order_placed /\ mem.recipe_steps # <<>>

\* the members action_mapping names
MembersMapped == {ActionMapping[i].member : i \in 1..Len(ActionMapping)}

\* C39: every action kind the dispatcher maps a phrase to or branches on
\* is a member of ActionType, so no dispatch faults on an unknown kind
C39_KindsAreEnumMembers ==
    Dispatched =>
        /\ MembersMapped \cup Range(MembersBranchedOn) \subseteq
              DOMAIN ActionType
        /\ ~(result.kind = "raised" /\ result.text = "AttributeError")
        /\ result.text # "unexpected_error_executing"

====
